---- MODULE Spec2Model ----
(***************************************************************************)
(* A model of diceware.py: the rejection-sampling Dice, the               *)
(* DicewareWordList (load, verify, get_password) and the module's         *)
(* top-level flow.                                                         *)
(*                                                                         *)
(* Text is modelled as sequences of one-character strings, so that the    *)
(* two regular expressions, str.strip(), int() and str() are computed     *)
(* character by character.                                                 *)
(***************************************************************************)
EXTENDS Integers, Sequences, FiniteSets, TLC

VARIABLES
    pc,            \* life cycle of the word list object: new, loading, loaded, failed
    num_dice,      \* DicewareWordList.num_dice
    dice_sides,    \* DicewareWordList.dice_sides
    dice,          \* DicewareWordList.dice (a Dice, or None)
    words,         \* DicewareWordList.words (a dict, or None)
    found_words,   \* load's local found_words
    seenWordShape, \* history: a line of the word-entry shape has been consumed by this load
    ret,           \* what the last call returned or raised (none while load runs)
    main           \* the top-level script: position, arguments, passwords written

vars == <<pc, num_dice, dice_sides, dice, words, found_words, seenWordShape, ret, main>>

----------------------------------------------------------------------------
(* Bounds of the model *)

\* largest value a DICE directive of the modelled inputs carries
MaxDice == 2
\* largest num_words passed to get_password
MaxWords == 2
\* largest number of bytes os.urandom hands out during one get_password call
MaxDraws == 3
\* largest --passwords argument
MaxPasswords == 1
\* depth at which the interpreter raises RecursionError
RecursionLimit == 6

(* Program constants *)
DEFAULT_DICE_SIDES == 6
DEFAULT_NUM_DICE == 5
MinSides == 2
MaxSides == 20
ByteValues == 256

----------------------------------------------------------------------------
(* Characters and conversions *)

DigitChars == <<"0", "1", "2", "3", "4", "5", "6", "7", "8", "9">>

IsDigit(c) == \E i \in 1..10 : DigitChars[i] = c

\* int() of one decimal digit
DigitVal(c) == CHOOSE v \in 0..9 : DigitChars[v + 1] = c

\* str.isspace() on the modelled alphabet
IsSpace(c) == c \in {" ", "\t"}

\* str(n) for n >= 0: the decimal digits, most significant first
RECURSIVE Str(_)
Str(n) ==
    IF n < 10 THEN <<DigitChars[n + 1]>>
    ELSE Str(n \div 10) \o <<DigitChars[(n % 10) + 1]>>

\* int(s) for a non-empty string of decimal digits
RECURSIVE ParseInt(_)
ParseInt(s) ==
    IF s = <<>> THEN 0
    ELSE ParseInt(SubSeq(s, 1, Len(s) - 1)) * 10 + DigitVal(s[Len(s)])

\* str.upper() on the letters the option pattern names
Upper(c) ==
    CASE c = "d" -> "D"
      [] c = "i" -> "I"
      [] c = "c" -> "C"
      [] c = "e" -> "E"
      [] c = "s" -> "S"
      [] OTHER -> c

\* number of leading characters of s that satisfy the class (digits or whitespace)
RECURSIVE DigitRun(_)
DigitRun(s) ==
    IF s # <<>> /\ IsDigit(Head(s)) THEN 1 + DigitRun(Tail(s)) ELSE 0

RECURSIVE SpaceRun(_)
SpaceRun(s) ==
    IF s # <<>> /\ IsSpace(Head(s)) THEN 1 + SpaceRun(Tail(s)) ELSE 0

Drop(s, k) == SubSeq(s, k + 1, Len(s))

RECURSIVE RStrip(_)
RStrip(s) ==
    IF s # <<>> /\ IsSpace(s[Len(s)]) THEN RStrip(SubSeq(s, 1, Len(s) - 1)) ELSE s

\* str.strip()
Strip(s) == RStrip(Drop(s, SpaceRun(s)))

----------------------------------------------------------------------------
(* Dice *)

NoDice == [none |-> TRUE, num_sides |-> 0, ceiling |-> 0]

\* the assertion of Dice.__init__
SidesAccepted(num_sides) == num_sides >= MinSides /\ num_sides <= MaxSides

CeilingNoRejection(num_sides) == ByteValues - 1

\* Dice.ceiling: the largest byte value that is kept
Ceiling(num_sides) == ((ByteValues \div num_sides) * num_sides) - 1

\* Dice(num_sides), when the assertion holds
NewDice(num_sides) ==
    [none |-> FALSE, num_sides |-> num_sides, ceiling |-> Ceiling(num_sides)]

\* the side a kept byte gives
SideOf(d, b) == (b % d.num_sides) + 1

\* Dice.roll() over the bytes os.urandom returns, in order: bytes above the
\* ceiling are thrown away; ok is FALSE when the bytes given run out first.
RECURSIVE Roll(_, _)
Roll(d, draws) ==
    IF draws = <<>> THEN [ok |-> FALSE, value |-> 0, rest |-> <<>>]
    ELSE IF Head(draws) > d.ceiling THEN Roll(d, Tail(draws))
    ELSE [ok |-> TRUE, value |-> SideOf(d, Head(draws)), rest |-> Tail(draws)]

----------------------------------------------------------------------------
(* DicewareWordList: the two patterns *)

\* PARSE_WORD.match(line): digits, whitespace, the rest of the line
MatchWord(line) ==
    LET nd == DigitRun(line)
        nw == SpaceRun(Drop(line, nd))
    IN  [matched |-> nd >= 1 /\ nw >= 1,
         roll    |-> SubSeq(line, 1, nd),
         word    |-> Drop(line, nd + nw)]

\* whether s starts with name, letters compared without case
StartsWith(s, name) ==
    /\ Len(s) >= Len(name)
    /\ \A i \in 1..Len(name) : Upper(s[i]) = name[i]

\* PARSE_OPTION.match(line): DICE or SIDES, = or :, a number, to the end of the line
MatchOption(line) ==
    LET nameLen == IF StartsWith(line, <<"D", "I", "C", "E">>) THEN 4
                   ELSE IF StartsWith(line, <<"S", "I", "D", "E", "S">>) THEN 5
                   ELSE 0
        r1 == Drop(line, nameLen)
        r2 == Drop(r1, SpaceRun(r1))
        r3 == IF r2 = <<>> THEN <<>> ELSE Tail(r2)
        r4 == Drop(r3, SpaceRun(r3))
        matched == /\ nameLen > 0
                   /\ r2 # <<>>
                   /\ Head(r2) \in {"=", ":"}
                   /\ r4 # <<>>
                   /\ DigitRun(r4) = Len(r4)
    IN  [matched |-> matched,
         opt     |-> IF nameLen = 0 THEN "" ELSE Upper(line[1]),
         value   |-> IF matched THEN ParseInt(r4) ELSE 0]

----------------------------------------------------------------------------
(* DicewareWordList: the dictionary of words *)

EmptyMap == [k \in {} |-> <<>>]

\* words = None
NoWords == [none |-> TRUE, map |-> EmptyMap]

\* words = {}
EmptyDict == [none |-> FALSE, map |-> EmptyMap]

\* words[roll] = word
Put(w, roll, word) ==
    [w EXCEPT !.map = [k \in (DOMAIN w.map) \cup {roll} |->
                          IF k = roll THEN word ELSE w.map[k]]]

\* words.get(roll): the word, or None
Get(w, roll) ==
    IF roll \in DOMAIN w.map THEN [none |-> FALSE, word |-> w.map[roll]]
    ELSE [none |-> TRUE, word |-> <<>>]

\* bool(words.get(roll, None))
HasWord(w, roll) == LET e == Get(w, roll) IN ~e.none /\ e.word # <<>>

\* bool(words)
WordsTruthy(w) == ~w.none /\ DOMAIN w.map # {}

----------------------------------------------------------------------------
(* DicewareWordList.load *)

IsValidRollAnyLength(roll, nd, sides) ==
    \A i \in 1..Len(roll) : DigitVal(roll[i]) \in 1..sides

\* _is_valid_roll
IsValidRoll(roll, nd, sides) ==
    /\ Len(roll) = nd
    /\ \A i \in 1..Len(roll) : DigitVal(roll[i]) \in 1..sides

MarkFoundWhenStored(found, stored) == found \/ stored

\* found_words after a line that matched PARSE_WORD
MarkFound(found, stored) == TRUE

\* one pass of load's for loop over the line `raw`; st holds words,
\* found_words, num_dice and dice_sides
LoopBody(st, raw) ==
    LET line == Strip(raw)
        mw   == MatchWord(line)
        valid == IsValidRoll(mw.roll, st.num_dice, st.dice_sides)
        st1  == IF mw.matched
                THEN [st EXCEPT !.found_words = MarkFound(@, valid),
                                !.words = IF valid THEN Put(@, mw.roll, mw.word) ELSE @]
                ELSE st
        mo   == MatchOption(line)
    IN  IF line = <<>> THEN st
        ELSE IF ~st1.found_words /\ mo.matched
        THEN IF mo.opt = "D" THEN [st1 EXCEPT !.num_dice = mo.value]
             ELSE IF mo.opt = "S" THEN [st1 EXCEPT !.dice_sides = mo.value]
             ELSE st1
        ELSE st1

----------------------------------------------------------------------------
(* DicewareWordList.verify *)

NoRet ==
    [op |-> "none", status |-> "none", roll |-> <<>>, n |-> 0,
     rolls |-> <<>>, words |-> <<>>, value |-> 0]

Returned(op) == [NoRet EXCEPT !.op = op, !.status = "return"]

Raised(op, exc) == [NoRet EXCEPT !.op = op, !.status = exc]

\* _verify(prefix), from `side` on, at recursion depth `depth`: "return" when
\* the loop ends, the exception otherwise, with the roll it names
RECURSIVE VerifyFrom(_, _, _, _, _, _)
VerifyFrom(w, nd, sides, prefix, side, depth) ==
    IF side > sides THEN [status |-> "return", roll |-> <<>>]
    ELSE LET roll == prefix \o Str(side) IN
         IF Len(roll) = nd
         THEN IF ~HasWord(w, roll)
              THEN [status |-> "DicewareWordListException", roll |-> roll]
              ELSE VerifyFrom(w, nd, sides, prefix, side + 1, depth)
         ELSE IF depth + 1 > RecursionLimit
              THEN [status |-> "RecursionError", roll |-> <<>>]
              ELSE LET r == VerifyFrom(w, nd, sides, roll, 1, depth + 1) IN
                   IF r.status = "return"
                   THEN VerifyFrom(w, nd, sides, prefix, side + 1, depth)
                   ELSE r

VerifySkipsLastSide(w, nd, sides) ==
    IF ~WordsTruthy(w) THEN Raised("verify", "DicewareWordListException")
    ELSE LET r == VerifyFrom(w, nd, sides - 1, <<>>, 1, 1) IN
         [NoRet EXCEPT !.op = "verify", !.status = r.status, !.roll = r.roll]

\* verify()
Verify(w, nd, sides) ==
    IF ~WordsTruthy(w) THEN Raised("verify", "DicewareWordListException")
    ELSE LET r == VerifyFrom(w, nd, sides, <<>>, 1, 1) IN
         [NoRet EXCEPT !.op = "verify", !.status = r.status, !.roll = r.roll]

----------------------------------------------------------------------------
(* DicewareWordList.get_password *)

\* _roll_dice(): k more rolls appended to acc
RECURSIVE RollDice(_, _, _, _)
RollDice(d, k, draws, acc) ==
    IF k = 0 THEN [ok |-> TRUE, roll |-> acc, rest |-> draws]
    ELSE LET r == Roll(d, draws) IN
         IF ~r.ok THEN [ok |-> FALSE, roll |-> acc, rest |-> <<>>]
         ELSE RollDice(d, k - 1, r.rest, acc \o Str(r.value))

\* [self._roll_dice() for x in range(num_words)]
RECURSIVE RollAll(_, _, _, _, _)
RollAll(d, nd, n, draws, acc) ==
    IF n <= 0 THEN [ok |-> TRUE, rolls |-> acc, rest |-> draws]
    ELSE LET r == RollDice(d, nd, draws, <<>>) IN
         IF ~r.ok THEN [ok |-> FALSE, rolls |-> acc, rest |-> <<>>]
         ELSE RollAll(d, nd, n - 1, r.rest, Append(acc, r.roll))

LookupAllShifted(w, rolls) ==
    [i \in 1..Len(rolls) |-> Get(w, rolls[IF i = Len(rolls) THEN 1 ELSE i + 1])]

\* [self.words.get(roll) for roll in rolls]
LookupAll(w, rolls) == [i \in 1..Len(rolls) |-> Get(w, rolls[i])]

Password(n, rolls, wordList) ==
    [NoRet EXCEPT !.op = "get_password", !.status = "return", !.n = n,
                  !.rolls = rolls, !.words = wordList]

GetPasswordUnguarded(d, w, nd, n, draws) ==
    IF (d.none \/ w.none) /\ n > 0
    THEN [ok |-> TRUE, rest |-> draws,
          ret |-> [Raised("get_password", "AttributeError") EXCEPT !.n = n]]
    ELSE LET r == RollAll(d, nd, n, draws, <<>>) IN
         [ok |-> r.ok, rest |-> r.rest, ret |-> Password(n, r.rolls, LookupAll(w, r.rolls))]

\* get_password(num_words) over the bytes os.urandom returns during the call
GetPassword(d, w, nd, n, draws) ==
    IF d.none \/ ~WordsTruthy(w)
    THEN [ok |-> TRUE, rest |-> draws, ret |-> Password(n, <<>>, <<>>)]
    ELSE LET r == RollAll(d, nd, n, draws, <<>>) IN
         [ok |-> r.ok, rest |-> r.rest, ret |-> Password(n, r.rolls, LookupAll(w, r.rolls))]

----------------------------------------------------------------------------
(* The top-level script *)

HandlerWithoutExit(status, next) ==
    IF status \in {"return", "DicewareWordListException"} THEN next ELSE "crashed"

\* where the script goes after a call inside its try block: on, to exit()
\* after printing a DicewareWordListException, or down with any other exception
Handler(status, next) ==
    CASE status = "return" -> next
      [] status = "DicewareWordListException" -> "exit"
      [] OTHER -> "crashed"

\* not running the script: the object is driven call by call
NoMain ==
    [pc |-> "api", words |-> 0, passwords |-> 0, written |-> 0,
     load |-> "none", verify |-> "none"]

\* the script after parse_args(), with --words and --passwords
StartMain(nw, np) ==
    [pc |-> "load", words |-> nw, passwords |-> np, written |-> 0,
     load |-> "none", verify |-> "none"]

----------------------------------------------------------------------------
(* Inputs *)

\* values of the SIDES directives among the input lines
SidesSamples == {0, 1, 2, 3, 10, 21}

\* roll keys of the word lines among the input lines
KeySamples ==
    {<<DigitChars[i]>> : i \in 1..10}
    \cup {<<"1", DigitChars[i]>> : i \in 1..10}
    \cup {<<"1", "1", "1">>, <<"1", "1", "1", "1", "1">>}

LineSamples ==
    {<<>>, <<" ">>}
    \cup {k \o <<" ", "a">> : k \in KeySamples}
    \cup {<<"1", "\t", " ", "a">>, <<" ", "1", "1", "1", "1", "1", " ", "a", " ", "b", " ">>,
          <<"1", "2">>, <<"1", "a">>, <<"1", " ">>, <<"a">>}
    \cup {<<"D", "I", "C", "E", "=">> \o Str(n) : n \in 0..MaxDice}
    \cup {<<"S", "I", "D", "E", "S", "=">> \o Str(n) : n \in SidesSamples}
    \cup {<<"d", "i", "c", "e", ":", "1">>,
          <<"S", "i", "d", "e", "s", " ", "=", " ", "3">>,
          <<"D", "=", "2">>, <<"D", "I", "C", "E", "=">>,
          <<"S", "I", "D", "E", "S", "=", "2", "x">>,
          <<"D", "I", "C", "E", "X", "=", "2">>}

\* bytes os.urandom returns in the word list specifications
ByteSamples == {0, 9, 255}

DrawSamples == UNION {[1..k -> ByteSamples] : k \in 0..MaxDraws}

\* every byte, after no or one rejected draw, in the dice specification
AllDraws ==
    {<<b>> : b \in 0..(ByteValues - 1)} \cup {<<255, b>> : b \in 0..(ByteValues - 1)}

----------------------------------------------------------------------------
(* State *)

LoadState ==
    [words |-> words, found_words |-> found_words,
     num_dice |-> num_dice, dice_sides |-> dice_sides]

Init ==
    /\ pc = "new"
    /\ num_dice = DEFAULT_NUM_DICE
    /\ dice_sides = DEFAULT_DICE_SIDES
    /\ dice = NoDice
    /\ words = NoWords
    /\ found_words = FALSE
    /\ seenWordShape = FALSE
    /\ ret = NoRet
    /\ main = NoMain

MainInit ==
    /\ pc = "new"
    /\ num_dice = DEFAULT_NUM_DICE
    /\ dice_sides = DEFAULT_DICE_SIDES
    /\ dice = NoDice
    /\ words = NoWords
    /\ found_words = FALSE
    /\ seenWordShape = FALSE
    /\ ret = NoRet
    /\ main \in {StartMain(nw, np) : nw \in 0..MaxWords, np \in 0..MaxPasswords}

----------------------------------------------------------------------------
(* The calls on a word list *)

\* load(wordlist) is entered
LoadCall ==
    /\ pc = "new"
    /\ pc' = "loading"
    /\ words' = EmptyDict
    /\ found_words' = FALSE
    /\ seenWordShape' = FALSE
    /\ ret' = NoRet
    /\ UNCHANGED <<num_dice, dice_sides, dice>>

\* load's loop takes the next line of the word list
LoadLine ==
    /\ pc = "loading"
    /\ \E raw \in LineSamples :
         LET st == LoopBody(LoadState, raw) IN
         /\ words' = st.words
         /\ found_words' = st.found_words
         /\ num_dice' = st.num_dice
         /\ dice_sides' = st.dice_sides
         /\ seenWordShape' = (seenWordShape \/ MatchWord(Strip(raw)).matched)
    /\ UNCHANGED <<pc, dice, ret>>

\* the word list is exhausted: load builds the Dice and returns, or the
\* assertion of Dice.__init__ fails
LoadEnd ==
    /\ pc = "loading"
    /\ IF SidesAccepted(dice_sides)
       THEN /\ dice' = NewDice(dice_sides)
            /\ pc' = "loaded"
            /\ ret' = Returned("load")
       ELSE /\ dice' = dice
            /\ pc' = "failed"
            /\ ret' = Raised("load", "AssertionError")
    /\ found_words' = FALSE
    /\ seenWordShape' = FALSE
    /\ UNCHANGED <<num_dice, dice_sides, words>>

\* verify()
VerifyCall ==
    /\ pc \in {"new", "loaded", "failed"}
    /\ ret' = Verify(words, num_dice, dice_sides)
    /\ UNCHANGED <<pc, num_dice, dice_sides, dice, words, found_words, seenWordShape>>

\* get_password(n), os.urandom returning exactly the bytes `draws` during the call
GetPasswordCall(n, draws) ==
    /\ pc \in {"new", "loaded", "failed"}
    /\ LET r == GetPassword(dice, words, num_dice, n, draws) IN
       /\ r.ok
       /\ r.rest = <<>>
       /\ ret' = r.ret
    /\ UNCHANGED <<pc, num_dice, dice_sides, dice, words, found_words, seenWordShape>>

ApiLoadCall == LoadCall /\ UNCHANGED main

ApiLoadLine == LoadLine /\ UNCHANGED main

ApiLoadEnd == LoadEnd /\ UNCHANGED main

ApiVerify == VerifyCall /\ UNCHANGED main

ApiGetPassword ==
    /\ \E n \in 0..MaxWords : \E draws \in DrawSamples : GetPasswordCall(n, draws)
    /\ UNCHANGED main

Next ==
    \/ ApiLoadCall
    \/ ApiLoadLine
    \/ ApiLoadEnd
    \/ ApiVerify
    \/ ApiGetPassword

Spec == Init /\ [][Next]_vars

----------------------------------------------------------------------------
(* A Dice on its own *)

\* Dice(n)
DiceNew ==
    /\ dice.none
    /\ \E n \in 0..(MaxSides + 1) :
         IF SidesAccepted(n)
         THEN /\ dice' = NewDice(n)
              /\ ret' = Returned("Dice")
         ELSE /\ dice' = dice
              /\ ret' = Raised("Dice", "AssertionError")
    /\ UNCHANGED <<pc, num_dice, dice_sides, words, found_words, seenWordShape, main>>

\* dice.roll()
DiceRoll ==
    /\ ~dice.none
    /\ \E draws \in AllDraws :
         LET r == Roll(dice, draws) IN
         /\ r.ok
         /\ r.rest = <<>>
         /\ ret' = [Returned("roll") EXCEPT !.value = r.value]
    /\ UNCHANGED <<pc, num_dice, dice_sides, dice, words, found_words, seenWordShape, main>>

DiceNext == DiceNew \/ DiceRoll

DiceSpec == Init /\ [][DiceNext]_vars

----------------------------------------------------------------------------
(* The script: load, verify, then one get_password per password *)

MainLoadCall ==
    /\ main.pc = "load"
    /\ LoadCall
    /\ UNCHANGED main

MainLoadLine ==
    /\ main.pc = "load"
    /\ LoadLine
    /\ UNCHANGED main

MainLoadEnd ==
    /\ main.pc = "load"
    /\ LoadEnd
    /\ main' = [main EXCEPT !.load = ret'.status,
                            !.pc = Handler(ret'.status, "verify")]

MainVerify ==
    /\ main.pc = "verify"
    /\ VerifyCall
    /\ main' = [main EXCEPT !.verify = ret'.status,
                            !.pc = Handler(ret'.status, "generate")]

\* one pass of the for loop: a password is generated and its line written,
\* unless join() meets a None among the words
MainPassword ==
    /\ main.pc = "generate"
    /\ main.written < main.passwords
    /\ \E draws \in DrawSamples : GetPasswordCall(main.words, draws)
    /\ main' = IF \E i \in 1..Len(ret'.words) : ret'.words[i].none
               THEN [main EXCEPT !.pc = "crashed"]
               ELSE [main EXCEPT !.written = @ + 1]

\* the for loop has ended
MainEnd ==
    /\ main.pc = "generate"
    /\ main.written = main.passwords
    /\ main' = [main EXCEPT !.pc = "exit"]
    /\ UNCHANGED <<pc, num_dice, dice_sides, dice, words, found_words, seenWordShape, ret>>

MainNext ==
    \/ MainLoadCall
    \/ MainLoadLine
    \/ MainLoadEnd
    \/ MainVerify
    \/ MainPassword
    \/ MainEnd

MainSpec == MainInit /\ [][MainNext]_vars

----------------------------------------------------------------------------
(* Properties *)

DigitSet == {DigitChars[i] : i \in 1..10}

\* a roll key for nd dice of `sides` sides: nd digits, each in 1..sides
IsRollKey(k, nd, sides) ==
    /\ Len(k) = nd
    /\ \A i \in 1..Len(k) : k[i] \in DigitSet /\ DigitVal(k[i]) >= 1 /\ DigitVal(k[i]) <= sides

\* all of them
RollKeys(nd, sides) ==
    [1..nd -> {c \in DigitSet : DigitVal(c) >= 1 /\ DigitVal(c) <= sides}]

\* a comes before b in lexicographic order, most significant digit first
LexLess(a, b) ==
    \E i \in 1..Len(a) :
        /\ DigitVal(a[i]) < DigitVal(b[i])
        /\ \A j \in 1..(i - 1) : a[j] = b[j]

Present(k) == k \in DOMAIN words.map /\ words.map[k] # <<>>

\* C1: once verify() has returned without error, every roll key of num_dice
\* digits in 1..dice_sides is in words, with a non-empty word.
C1_VerifiedListIsTotal ==
    (ret.op = "verify" /\ ret.status = "return")
        => \A k \in RollKeys(num_dice, dice_sides) : Present(k)

C1_Witness ==
    /\ pc = "loaded"
    /\ ret.op = "verify"
    /\ ret.status = "return"
    /\ num_dice = 1
    /\ dice_sides = 3

\* C2: a Dice has sides in 2..20 and ceiling floor(256/sides)*sides - 1, and
\* each side 1..sides is what roll() gives for exactly floor(256/sides) of the
\* byte values it keeps.
C2_KeptBytesSpreadEvenly ==
    ~dice.none =>
        /\ dice.num_sides \in 2..20
        /\ dice.ceiling = ((256 \div dice.num_sides) * dice.num_sides) - 1
        /\ \A k \in 1..dice.num_sides :
               Cardinality({b \in 0..255 :
                               LET r == Roll(dice, <<b>>) IN r.ok /\ r.value = k})
                   = 256 \div dice.num_sides

C2_Witness ==
    /\ ~dice.none
    /\ dice.num_sides = 3
    /\ ret.op = "roll"
    /\ ret.value = 3

\* C3: after a completed load, when words is non-empty and some roll key is
\* missing, verify() raises the word list exception naming the missing key
\* that is first in lexicographic order.
C3_ReportsFirstMissingKey ==
    (/\ pc = "loaded"
     /\ ret.op = "verify"
     /\ WordsTruthy(words)
     /\ \E k \in RollKeys(num_dice, dice_sides) : ~Present(k))
        => /\ ret.status = "DicewareWordListException"
           /\ IsRollKey(ret.roll, num_dice, dice_sides)
           /\ ~Present(ret.roll)
           /\ \A k \in RollKeys(num_dice, dice_sides) : LexLess(k, ret.roll) => Present(k)

\* C4: while load runs, a DICE or SIDES directive sets num_dice or dice_sides
\* exactly when no line of the word-entry shape came before it; after such a
\* line, stored or not, a directive changes neither.
C4_DirectivesLockedByFirstWordLine ==
    pc = "loading" =>
        \A raw \in LineSamples :
            LET mo == MatchOption(Strip(raw))
                st == LoopBody(LoadState, raw)
            IN  mo.matched =>
                    IF seenWordShape
                    THEN st.num_dice = num_dice /\ st.dice_sides = dice_sides
                    ELSE /\ mo.opt = "D" => st.num_dice = mo.value /\ st.dice_sides = dice_sides
                         /\ mo.opt = "S" => st.dice_sides = mo.value /\ st.num_dice = num_dice

C4_Witness ==
    /\ pc = "loading"
    /\ seenWordShape
    /\ DOMAIN words.map = {}
    /\ num_dice = 2
    /\ dice_sides = 3

\* C5: every key in words has exactly num_dice digits, each in 1..dice_sides,
\* and a word line whose digits are no such key leaves words as it is.
C5_StoredKeysAreValid ==
    /\ ~words.none => \A k \in DOMAIN words.map : IsRollKey(k, num_dice, dice_sides)
    /\ pc = "loading" =>
           \A raw \in LineSamples :
               LET mw == MatchWord(Strip(raw)) IN
               (mw.matched /\ ~IsRollKey(mw.roll, num_dice, dice_sides))
                   => LoopBody(LoadState, raw).words = words

C5_Witness ==
    /\ pc = "loaded"
    /\ num_dice = 2
    /\ dice_sides = 10
    /\ Cardinality(DOMAIN words.map) >= 2

Aligned ==
    /\ Len(ret.rolls) = ret.n
    /\ Len(ret.words) = ret.n
    /\ \A i \in 1..ret.n : ret.words[i] = Get(words, ret.rolls[i])

\* C6 as stated: after a completed load, get_password(n) returns n rolls and
\* n words, words[i] being the entry of rolls[i] or None.
C6_LoadedGivesAlignedPassword ==
    (pc = "loaded" /\ ret.op = "get_password") => Aligned

\* C6, amended: the same after a completed load that stored at least one
\* entry; after a load that stored none, the password is empty.
C6_NonEmptyListGivesAlignedPassword ==
    (pc = "loaded" /\ ret.op = "get_password") =>
        /\ ret.status = "return"
        /\ IF WordsTruthy(words) THEN Aligned
           ELSE ret.rolls = <<>> /\ ret.words = <<>>

C6_Witness ==
    /\ pc = "loaded"
    /\ ret.op = "get_password"
    /\ ret.n = 2
    /\ Len(ret.rolls) = 2
    /\ ret.words[1].none
    /\ ~ret.words[2].none

\* C7: get_password never raises; without a Dice or without words it returns
\* an empty password, and so does get_password(0) in every state.
C7_GeneratePasswordNeverFails ==
    ret.op = "get_password" =>
        /\ ret.status = "return"
        /\ (dice.none \/ words.none) => ret.rolls = <<>> /\ ret.words = <<>>
        /\ ret.n = 0 => ret.rolls = <<>> /\ ret.words = <<>>

C7_Witness ==
    /\ pc = "new"
    /\ ret.op = "get_password"
    /\ ret.n > 0
    /\ ret.rolls = <<>>

\* C8: after a completed load with dice_sides in 2..20, every roll
\* get_password returns has exactly num_dice digits, each in 1..dice_sides.
C8_GeneratedRollsAreRollKeys ==
    (pc = "loaded" /\ ret.op = "get_password") =>
        \A i \in 1..Len(ret.rolls) : IsRollKey(ret.rolls[i], num_dice, dice_sides)

\* C9: the script generates and writes a password only after load and verify
\* have both returned; after a failed assertion on dice_sides or a failed
\* verify it has stopped and written nothing.
C9_PasswordsOnlyAfterVerifiedLoad ==
    /\ (main.written > 0 \/ ret.op = "get_password")
           => main.load = "return" /\ main.verify = "return"
    /\ main.load = "AssertionError" => dice_sides \notin 2..20
    /\ (main.load \notin {"none", "return"} \/ main.verify \notin {"none", "return"})
           => main.written = 0 /\ main.pc \in {"exit", "crashed"}

C9_Witness ==
    /\ main.written > 0
    /\ main.pc = "exit"
    /\ Len(ret.rolls) > 0

\* C10: after a completed load with num_dice >= 1, verify() ends by returning
\* or by raising the word list exception.
C10_VerifyReturnsOrReportsMissing ==
    (pc = "loaded" /\ num_dice >= 1 /\ ret.op = "verify")
        => ret.status \in {"return", "DicewareWordListException"}

====
